---- MODULE Spec2Model ----
(***************************************************************************)
(* Identity reconciliation service (src/index.ts): the Contact table and   *)
(* the POST /identify handler, with the SQL statements it issues.          *)
(*                                                                         *)
(* The table is a set of rows.  A request field is UNDEF when the JSON     *)
(* body does not carry it, NULL when it carries null, "" or a non-empty    *)
(* string otherwise.  A column holds NULL or a string; linkedId holds      *)
(* NullId or an id.  A row read from the table carries the fields of       *)
(* interface Contact (lines 24-33), as the functions' return types state.  *)
(*                                                                         *)
(* Under Spec and SpecScan requests are handled one after the other, each  *)
(* in one step.  Under SpecConc and SpecFail a request advances one store  *)
(* call at a time (each await of the handler), so that requests interleave *)
(* and a store call may fail.  createdAt is the clock of the INSERT, which *)
(* advances with every row written, so rows are created at distinct        *)
(* instants in the order of their ids.                                     *)
(***************************************************************************)
EXTENDS Integers, Sequences, FiniteSets, TLC

VARIABLES Contact,   \* the rows of table Contact
          id_seq,    \* last value of the SERIAL sequence behind Contact.id
          clock,     \* CURRENT_TIMESTAMP of the last statement that wrote a row
          last,      \* the last request handled and its response
          req        \* the requests in flight: where each one stands in the handler

vars == <<Contact, id_seq, clock, last, req>>

---------------------------------------------------------------------------
(* Bounds of the model *)

MaxContacts == 3     \* rows the table may hold under Spec
MaxScanContacts == 4 \* rows the table may hold under SpecScan
MaxConcContacts == 3 \* rows the table may hold under SpecConc
MaxFailContacts == 2 \* rows the table may hold under SpecFail
MaxIds == 3          \* ids the sequence may hand out under SpecFail

NULL == "NULL"       \* SQL NULL / JSON null
UNDEF == "UNDEF"     \* a field the request body does not carry
NullId == 0          \* SQL NULL in the integer column linkedId (ids start at 1)

EmailValues == {"a@x.com", "b@x.com"}
PhoneValues == {"555", "777"}

\* what req.body may carry in each field: a value, nothing, and one of the other
\* falsy values each (the empty string, JSON null)
ReqEmails == {UNDEF, ""} \cup EmailValues
ReqPhones == {UNDEF, NULL} \cup PhoneValues

---------------------------------------------------------------------------
(* Values *)

\* Truthy testing for null and undefined only
TruthyNotNullish(v) == v \notin {UNDEF, NULL}

\* JavaScript truthiness of a string | null | undefined
Truthy(v) == v \notin {UNDEF, NULL, ""}

\* node-postgres sends an undefined parameter as NULL
ToParam(v) == IF v = UNDEF THEN NULL ELSE v

\* the rows of a set with the least createdAt
Earliest(S) == {c \in S : \A d \in S : c.createdAt <= d.createdAt}

\* every sequence ORDER BY createdAt ASC may return for the rows S
RECURSIVE OrderByCreatedAt(_)
OrderByCreatedAt(S) ==
    IF S = {} THEN {<<>>}
    ELSE UNION {{<<m>> \o t : t \in OrderByCreatedAt(S \ {m})} : m \in Earliest(S)}

\* Array.from(new Set(s)): first occurrences, in insertion order
RECURSIVE SetOrder(_)
SetOrder(s) ==
    IF s = <<>> THEN <<>>
    ELSE LET init == SetOrder(SubSeq(s, 1, Len(s) - 1))
             x == s[Len(s)]
         IN IF \E i \in 1..Len(init) : init[i] = x THEN init ELSE Append(init, x)

---------------------------------------------------------------------------
(* The statements *)

\* getRelatedContacts joining its two conditions with AND
getRelatedContactsAnd(table, email, phoneNumber) ==
    IF ~Truthy(email) /\ ~Truthy(phoneNumber) THEN {}
    ELSE {c \in table :
            /\ c.deletedAt = NULL
            /\ Truthy(email) => c.email = email
            /\ Truthy(phoneNumber) => c.phoneNumber = phoneNumber}

\* SELECT * FROM Contact WHERE deletedAt IS NULL AND (email = $1 OR phoneNumber = $2)
getRelatedContacts(table, email, phoneNumber) ==
    IF ~Truthy(email) /\ ~Truthy(phoneNumber) THEN {}
    ELSE {c \in table :
            /\ c.deletedAt = NULL
            /\ \/ Truthy(email) /\ c.email = email
               \/ Truthy(phoneNumber) /\ c.phoneNumber = phoneNumber}

\* the recursive part of contact_tree: rows linked to a row already in the tree
RECURSIVE contact_tree(_, _)
contact_tree(table, tree) ==
    LET step == {c \in table : c.deletedAt = NULL
                               /\ \E ct \in tree : c.linkedId = ct.id}
    IN IF step \subseteq tree THEN tree ELSE contact_tree(table, tree \cup step)

\* the orders in which getContactChain may return the chain below a contact
getContactChain(table, contact) ==
    OrderByCreatedAt(contact_tree(table,
        {c \in table : c.id = contact.id /\ c.deletedAt = NULL}))

\* createContact inserting every row as a primary
createContactPrimary(email, phoneNumber, linkedId, linkPrecedence, id, now) ==
    [id |-> id,
     phoneNumber |-> ToParam(phoneNumber),
     email |-> ToParam(email),
     linkedId |-> linkedId,
     linkPrecedence |-> "primary",
     createdAt |-> now,
     updatedAt |-> now,
     deletedAt |-> NULL]

\* createContact with the two values bound to each other's column
createContactSwapped(email, phoneNumber, linkedId, linkPrecedence, id, now) ==
    [id |-> id,
     phoneNumber |-> ToParam(email),
     email |-> ToParam(phoneNumber),
     linkedId |-> linkedId,
     linkPrecedence |-> linkPrecedence,
     createdAt |-> now,
     updatedAt |-> now,
     deletedAt |-> NULL]

\* INSERT INTO Contact ... RETURNING * : the new row
createContact(email, phoneNumber, linkedId, linkPrecedence, id, now) ==
    [id |-> id,
     phoneNumber |-> ToParam(phoneNumber),
     email |-> ToParam(email),
     linkedId |-> linkedId,
     linkPrecedence |-> linkPrecedence,
     createdAt |-> now,
     updatedAt |-> now,
     deletedAt |-> NULL]

\* UPDATE Contact SET linkedId = $1, linkPrecedence = 'secondary', updatedAt = now WHERE id = $2
updateContactToSecondary(table, contactId, linkedId, now) ==
    {IF c.id = contactId
        THEN [c EXCEPT !.linkedId = linkedId, !.linkPrecedence = "secondary",
                       !.updatedAt = now]
        ELSE c : c \in table}

---------------------------------------------------------------------------
(* The handler's pure steps *)

isPrimary(c) == c.linkPrecedence = "primary"
isSecondary(c) == c.linkPrecedence = "secondary"

\* findPrimary taking the oldest row of the chain for its primary
findPrimaryOldest(contacts) ==
    IF contacts = <<>> THEN <<>> ELSE <<Head(contacts)>>

\* contacts.find(c => c.linkPrecedence === 'primary'): the hits, the first one first
\* (empty when find returns undefined)
findPrimary(contacts) == SelectSeq(contacts, isPrimary)

\* contacts.filter(c => c.linkPrecedence === 'primary' / 'secondary')
filterPrimary(contacts) == SelectSeq(contacts, isPrimary)
filterSecondary(contacts) == SelectSeq(contacts, isSecondary)

\* secondary.map(c => c.email!).filter(Boolean), and the same for phoneNumber
emailsOf(secondary) ==
    SelectSeq([i \in 1..Len(secondary) |-> secondary[i].email], Truthy)
phoneNumbersOf(secondary) ==
    SelectSeq([i \in 1..Len(secondary) |-> secondary[i].phoneNumber], Truthy)

\* secondary.map(c => c.id)
idsOf(secondary) == [i \in 1..Len(secondary) |-> secondary[i].id]

NoResponse == [primaryContatctId |-> 0, emails |-> <<>>, phoneNumbers |-> <<>>,
               secondaryContactIds |-> <<>>]

\* the connections of the pool: requests that may be in flight at once
Procs == {1, 2}

\* a connection that handles no request
Idle == [pc |-> "idle", email |-> UNDEF, phoneNumber |-> UNDEF, first |-> NullId,
         fullChain |-> <<>>, pending |-> <<>>, before |-> {}]

\* buildResponse; "thrown" when the contacts hold no primary
buildResponse(contacts) ==
    LET found == findPrimary(contacts)
        primary == Head(found)
        secondary == filterSecondary(contacts)
    IN IF found = <<>> THEN [thrown |-> TRUE, contact |-> NoResponse]
       ELSE [thrown |-> FALSE,
             contact |->
               [primaryContatctId |-> primary.id,
                emails |-> SetOrder(<<primary.email>> \o emailsOf(secondary)),
                phoneNumbers |-> SetOrder(<<primary.phoneNumber>>
                                          \o phoneNumbersOf(secondary)),
                secondaryContactIds |-> idsOf(secondary)]]

\* primaries.reduce((a, b) => a.createdAt < b.createdAt ? a : b)
RECURSIVE reduceOldest(_)
reduceOldest(primaries) ==
    IF Len(primaries) = 1 THEN primaries[1]
    ELSE LET a == reduceOldest(SubSeq(primaries, 1, Len(primaries) - 1))
             b == primaries[Len(primaries)]
         IN IF a.createdAt < b.createdAt THEN a ELSE b

\* the loop demoting every primary of the chain but the oldest, in order;
\* each UPDATE runs at its own instant.  Yields the table and the clock after it.
RECURSIVE demoteOthers(_, _, _, _)
demoteOthers(table, primaries, oldest, now) ==
    IF primaries = <<>> THEN [table |-> table, clock |-> now]
    ELSE LET p == Head(primaries)
         IN IF p.id # oldest.id
               THEN demoteOthers(
                        updateContactToSecondary(table, p.id, oldest.id, now + 1),
                        Tail(primaries), oldest, now + 1)
               ELSE demoteOthers(table, Tail(primaries), oldest, now)

\* lines 149-158: the row the handler inserts for a chain with a primary, if any
\* (a set of at most one row)
newSecondary(fullChain, primary, email, phoneNumber, id, now) ==
    LET alreadyExists == \E i \in 1..Len(fullChain) :
                            /\ fullChain[i].email = email
                            /\ fullChain[i].phoneNumber = phoneNumber
        existsEmail == \E i \in 1..Len(fullChain) : fullChain[i].email = email
        existsPhone == \E i \in 1..Len(fullChain) : fullChain[i].phoneNumber = phoneNumber
    IN IF /\ ~alreadyExists
          /\ \/ Truthy(email) /\ ~existsEmail
             \/ Truthy(phoneNumber) /\ ~existsPhone
          THEN {createContact(email, phoneNumber, primary.id, "secondary", id, now)}
          ELSE {}

\* lines 160-166: the table and the clock after the demotions, for the chain
\* as the handler holds it
mergePrimaries(table, now, chain) ==
    LET primaries == filterPrimary(chain)
    IN IF Len(primaries) > 1
          THEN demoteOthers(table, primaries, reduceOldest(primaries), now)
          ELSE [table |-> table, clock |-> now]

\* noPrimary giving the new row the sequence's current value, not its next
noPrimaryStaleId(table, seq, now, email, phoneNumber) ==
    LET primary == createContact(email, phoneNumber, NullId, "primary", seq, now + 1)
    IN [table |-> table \cup {primary}, seq |-> seq, clock |-> now + 1,
        response |-> buildResponse(<<primary>>)]

\* lines 144-147: no primary in the chain, a new primary is inserted and returned
noPrimary(table, seq, now, email, phoneNumber) ==
    LET primary == createContact(email, phoneNumber, NullId, "primary", seq + 1, now + 1)
    IN [table |-> table \cup {primary}, seq |-> seq + 1, clock |-> now + 1,
        response |-> buildResponse(<<primary>>)]

\* lines 149-168: the chain has a primary; `added` is the row inserted, if any
withPrimary(table, seq, now, fullChain, added) ==
    IF added = {}
    THEN [table |-> mergePrimaries(table, now, fullChain).table,
          seq |-> seq,
          clock |-> mergePrimaries(table, now, fullChain).clock,
          response |-> buildResponse(fullChain)]
    ELSE LET secondary == CHOOSE c \in added : TRUE
             pushed == Append(fullChain, secondary)
         IN [table |-> mergePrimaries(table \cup added, now + 1, pushed).table,
             seq |-> seq + 1,
             clock |-> mergePrimaries(table \cup added, now + 1, pushed).clock,
             response |-> buildResponse(pushed)]

\* handleChain making the first row of a chain without primary its primary
handleChainPromoting(table, seq, now, fullChain, email, phoneNumber) ==
    IF findPrimary(fullChain) # <<>>
    THEN withPrimary(table, seq, now, fullChain,
                     newSecondary(fullChain, Head(findPrimary(fullChain)),
                                  email, phoneNumber, seq + 1, now + 1))
    ELSE IF fullChain = <<>>
    THEN noPrimary(table, seq, now, email, phoneNumber)
    ELSE LET promoted == [Head(fullChain) EXCEPT !.linkPrecedence = "primary",
                                                 !.linkedId = NullId,
                                                 !.updatedAt = now + 1]
         IN [table |-> (table \ {Head(fullChain)}) \cup {promoted},
             seq |-> seq, clock |-> now + 1,
             response |-> buildResponse(<<promoted>> \o Tail(fullChain))]

\* lines 143-168: the outcome of the handler once the chain is read:
\* the table, sequence and clock it leaves, and the response it sends
handleChain(table, seq, now, fullChain, email, phoneNumber) ==
    IF findPrimary(fullChain) = <<>>
    THEN noPrimary(table, seq, now, email, phoneNumber)
    ELSE withPrimary(table, seq, now, fullChain,
                     newSecondary(fullChain, Head(findPrimary(fullChain)),
                                  email, phoneNumber, seq + 1, now + 1))

---------------------------------------------------------------------------
(* The state machine *)

Init ==
    /\ Contact = {}
    /\ id_seq = 0
    /\ clock = 0
    /\ last = [email |-> UNDEF, phoneNumber |-> UNDEF, status |-> 0,
               contact |-> NoResponse, before |-> {}]
    /\ req = [p \in Procs |-> Idle]

\* The SELECT of getRelatedContacts has no ORDER BY, so SQL leaves open which
\* matching row is related[0]: any of them.
anyRow(related) == related

\* A sequential scan of a table that has seen only INSERTs returns the rows in the
\* order they were inserted, the order of their ids: related[0] is the first match.
firstInserted(related) == {c \in related : \A d \in related : c.id <= d.id}

\* POST /identify, handled from the first statement to the response; the SELECT
\* returns its rows in insertion order if scan, in any order if not, and the table
\* holds at most max rows
handle(email, phoneNumber, scan, max) ==
    /\ UNCHANGED req
    /\ IF ~Truthy(email) /\ ~Truthy(phoneNumber)
       THEN /\ last' = [email |-> email, phoneNumber |-> phoneNumber, status |-> 400,
                        contact |-> NoResponse, before |-> Contact]
            /\ UNCHANGED <<Contact, id_seq, clock>>
       ELSE LET related == getRelatedContacts(Contact, email, phoneNumber)
                chains == IF related = {} THEN {<<>>}
                          ELSE UNION {getContactChain(Contact, first) :
                                         first \in IF scan THEN firstInserted(related)
                                                           ELSE anyRow(related)}
            IN \E fullChain \in chains :
                 \E out \in {handleChain(Contact, id_seq, clock, fullChain,
                                         email, phoneNumber)} :
                    /\ Cardinality(out.table) <= max
                    /\ Contact' = out.table
                    /\ id_seq' = out.seq
                    /\ clock' = out.clock
                    /\ last' = [email |-> email, phoneNumber |-> phoneNumber,
                                status |-> IF out.response.thrown THEN 500 ELSE 200,
                                contact |-> out.response.contact,
                                before |-> Contact]

identify(email, phoneNumber) == handle(email, phoneNumber, FALSE, MaxContacts)

identifyScan(email, phoneNumber) ==
    handle(email, phoneNumber, TRUE, MaxScanContacts)

Next ==
    \E email \in ReqEmails, phoneNumber \in ReqPhones : identify(email, phoneNumber)

NextScan ==
    \E email \in ReqEmails, phoneNumber \in ReqPhones : identifyScan(email, phoneNumber)

\* requests one after the other, the SELECT returning its rows in any order
Spec == Init /\ [][Next]_vars

\* requests one after the other, the SELECT returning its rows in insertion order
SpecScan == Init /\ [][NextScan]_vars

---------------------------------------------------------------------------
(* The handler one store call at a time (lines 135-173) *)

\* the row with an id (WHERE id = $1)
RowOf(table, id) == CHOOSE c \in table : c.id = id

\* lines 160-165: the ids the loop has to demote, in the order of the chain
othersOf(chain) ==
    LET primaries == filterPrimary(chain)
        oldest == reduceOldest(primaries)
        other(c) == c.id # oldest.id
    IN IF Len(primaries) > 1 THEN idsOf(SelectSeq(primaries, other)) ELSE <<>>

\* res.json / res.status(500).json: the response of the request of p goes out and
\* the connection is free again
respond(p, response) ==
    /\ last' = [email |-> req[p].email, phoneNumber |-> req[p].phoneNumber,
                status |-> IF response.thrown THEN 500 ELSE 200,
                contact |-> response.contact,
                before |-> req[p].before]
    /\ req' = [req EXCEPT ![p] = Idle]

\* lines 136-140: a request arrives; it is answered 400 at once, or issues the
\* SELECT of getRelatedContacts (the table holding at most max rows once every
\* request in flight has inserted one)
receive(p, email, phoneNumber, max) ==
    /\ req[p].pc = "idle"
    /\ IF ~Truthy(email) /\ ~Truthy(phoneNumber)
       THEN /\ last' = [email |-> email, phoneNumber |-> phoneNumber, status |-> 400,
                        contact |-> NoResponse, before |-> Contact]
            /\ UNCHANGED <<Contact, id_seq, clock, req>>
       ELSE /\ Cardinality(Contact) + Cardinality({q \in Procs : req[q].pc # "idle"}) < max
            /\ req' = [req EXCEPT ![p] = [Idle EXCEPT !.pc = "related",
                                                      !.email = email,
                                                      !.phoneNumber = phoneNumber,
                                                      !.before = Contact]]
            /\ UNCHANGED <<Contact, id_seq, clock, last>>

\* lines 140-145: the SELECT of getRelatedContacts returns; with a row the SELECT
\* of getContactChain is issued for related[0], without one the INSERT of a primary
selectRelated(p) ==
    /\ req[p].pc = "related"
    /\ LET related == getRelatedContacts(Contact, req[p].email, req[p].phoneNumber)
       IN IF related = {}
          THEN req' = [req EXCEPT ![p].pc = "write"]
          ELSE \E first \in anyRow(related) :
                  req' = [req EXCEPT ![p].pc = "chain", ![p].first = first.id]
    /\ UNCHANGED <<Contact, id_seq, clock, last>>

\* lines 141-168: the SELECT of getContactChain returns; the handler issues the
\* INSERT that is due, or else the first UPDATE, or else responds
selectChain(p) ==
    /\ req[p].pc = "chain"
    /\ UNCHANGED <<Contact, id_seq, clock>>
    /\ \E fullChain \in getContactChain(Contact, RowOf(Contact, req[p].first)) :
          LET primary == findPrimary(fullChain)
          IN IF \/ primary = <<>>
                \/ newSecondary(fullChain, Head(primary), req[p].email,
                                req[p].phoneNumber, id_seq + 1, clock + 1) # {}
             THEN /\ req' = [req EXCEPT ![p].pc = "write", ![p].fullChain = fullChain]
                  /\ UNCHANGED last
             ELSE IF othersOf(fullChain) # <<>>
             THEN /\ req' = [req EXCEPT ![p].pc = "write", ![p].fullChain = fullChain,
                                        ![p].pending = othersOf(fullChain)]
                  /\ UNCHANGED last
             ELSE respond(p, buildResponse(fullChain))

\* lines 145-168: the statement in flight writes its row: the INSERT of the
\* primary (line 145), the INSERT of the secondary (line 156) or one UPDATE
\* (line 164); the handler then issues the next UPDATE or responds
write(p) ==
    /\ req[p].pc = "write"
    /\ clock' = clock + 1
    /\ LET r == req[p]
           primary == findPrimary(r.fullChain)
       IN IF r.pending # <<>>
          THEN /\ Contact' = updateContactToSecondary(Contact, Head(r.pending),
                                 reduceOldest(filterPrimary(r.fullChain)).id, clock + 1)
               /\ UNCHANGED id_seq
               /\ IF Tail(r.pending) = <<>>
                  THEN respond(p, buildResponse(r.fullChain))
                  ELSE /\ req' = [req EXCEPT ![p].pending = Tail(r.pending)]
                       /\ UNCHANGED last
          ELSE IF primary = <<>>
          THEN \E out \in {noPrimary(Contact, id_seq, clock, r.email, r.phoneNumber)} :
                  /\ Contact' = out.table
                  /\ id_seq' = out.seq
                  /\ respond(p, out.response)
          ELSE \E added \in newSecondary(r.fullChain, Head(primary), r.email,
                                         r.phoneNumber, id_seq + 1, clock + 1) :
                  /\ Contact' = Contact \cup {added}
                  /\ id_seq' = id_seq + 1
                  /\ IF othersOf(Append(r.fullChain, added)) = <<>>
                     THEN respond(p, buildResponse(Append(r.fullChain, added)))
                     ELSE /\ req' = [req EXCEPT
                                       ![p].fullChain = Append(r.fullChain, added),
                                       ![p].pending = othersOf(Append(r.fullChain, added))]
                          /\ UNCHANGED last

\* fail in which the INSERT writes its row before the error reaches the handler
failCommitted(p) ==
    /\ req[p].pc = "write"
    /\ req[p].pending = <<>>
    /\ id_seq < MaxIds
    /\ Contact' = Contact \cup
          {createContact(req[p].email, req[p].phoneNumber, NullId, "primary",
                         id_seq + 1, clock + 1)}
    /\ id_seq' = id_seq + 1
    /\ clock' = clock + 1
    /\ respond(p, [thrown |-> TRUE, contact |-> NoResponse])

\* lines 169-172: the store call in flight is rejected and the handler answers 500.
\* The statement wrote no row; a rejected INSERT may have drawn its id from the
\* sequence all the same.
fail(p) ==
    /\ req[p].pc # "idle"
    /\ \E drawn \in {0, 1} :
          /\ drawn = 1 => /\ req[p].pc = "write"
                          /\ req[p].pending = <<>>
                          /\ id_seq < MaxIds
          /\ id_seq' = id_seq + drawn
    /\ UNCHANGED <<Contact, clock>>
    /\ respond(p, [thrown |-> TRUE, contact |-> NoResponse])

\* what the interleaved requests carry: a value or nothing in each field
ConcEmails == {UNDEF} \cup EmailValues
ConcPhones == {UNDEF, "555"}

NextConc ==
    \E p \in Procs :
       \/ \E email \in ConcEmails, phoneNumber \in ConcPhones :
             receive(p, email, phoneNumber, MaxConcContacts)
       \/ selectRelated(p)
       \/ selectChain(p)
       \/ write(p)

NextFail ==
    \E p \in {1} :
       \/ \E email \in ReqEmails, phoneNumber \in ReqPhones :
             receive(p, email, phoneNumber, MaxFailContacts)
       \/ selectRelated(p)
       \/ selectChain(p)
       \/ write(p)
       \/ fail(p)

\* requests on two connections, their store calls interleaved; no call fails
SpecConc == Init /\ [][NextConc]_vars

\* requests on one connection, any store call of which may fail
SpecFail == Init /\ [][NextFail]_vars

---------------------------------------------------------------------------
(* Vocabulary of the properties *)

Live(table) == {c \in table : c.deletedAt = NULL}

\* two contacts hold the same (non-empty) email or the same phone number
Shares(c, d) ==
    \/ Truthy(c.email) /\ c.email = d.email
    \/ Truthy(c.phoneNumber) /\ c.phoneNumber = d.phoneNumber

\* the live contacts transitively connected to those of K
RECURSIVE Connected(_, _)
Connected(table, K) ==
    LET more == K \cup {d \in Live(table) : \E c \in K : Shares(c, d)}
    IN IF more = K THEN K ELSE Connected(table, more)

\* the cluster of a contact
ClusterOf(table, c) == Connected(table, {c})

Primaries(K) == {c \in K : c.linkPrecedence = "primary"}
Secondaries(K) == {c \in K : c.linkPrecedence = "secondary"}
Ids(K) == {c.id : c \in K}
Range(s) == {s[i] : i \in 1..Len(s)}

\* a cluster is a star: one primary, the others secondaries linked to it
IsStar(K) ==
    \E p \in K : /\ p.linkPrecedence = "primary"
                 /\ \A d \in K \ {p} : /\ d.linkPrecedence = "secondary"
                                         /\ d.linkedId = p.id

WellFormed(table) == \A c \in Live(table) : IsStar(ClusterOf(table, c))

\* the live contacts holding the email, the phone number, of an observation
WithEmail(table, email) == {c \in Live(table) : Truthy(email) /\ c.email = email}
WithPhone(table, phoneNumber) ==
    {c \in Live(table) : Truthy(phoneNumber) /\ c.phoneNumber = phoneNumber}
Matching(table, email, phoneNumber) ==
    WithEmail(table, email) \cup WithPhone(table, phoneNumber)

\* the last request was a valid observation and was answered
Answered == last.status = 200
\* the rows the last request inserted
Inserted == {c \in Contact : c.id \notin Ids(last.before)}
\* the column value an observation's field is stored as
Stored(v) == IF v = UNDEF THEN NULL ELSE v

---------------------------------------------------------------------------
(* Properties *)

\* C1 (P1, single primary): after each identify every cluster holds exactly one
\* primary and its other members are secondaries linked to that primary.
P1_SinglePrimary == WellFormed(Contact)

\* the older of two primaries: by createdAt, ties by lowest id
Older(p, q) ==
    IF p.createdAt < q.createdAt \/ (p.createdAt = q.createdAt /\ p.id < q.id)
    THEN p ELSE q

\* the last observation's email matched one cluster of a well-formed store and
\* its phone number another
Bridged ==
    /\ Answered
    /\ WellFormed(last.before)
    /\ WithEmail(last.before, last.email) # {}
    /\ WithPhone(last.before, last.phoneNumber) # {}
    /\ \A e \in WithEmail(last.before, last.email) :
         \A f \in WithPhone(last.before, last.phoneNumber) :
            f \notin ClusterOf(last.before, e)

\* C2 (merge of bridged clusters): when the email matches one cluster and the phone
\* number another, the younger primary is demoted to a secondary of the older, the
\* older is the merged cluster's only primary, and the response reports the older
\* primary with the demoted contact among the secondaries.
MergeBridgedClusters ==
    Bridged =>
      \A e \in WithEmail(last.before, last.email) :
      \A f \in WithPhone(last.before, last.phoneNumber) :
      \A p \in Primaries(ClusterOf(last.before, e)) :
      \A q \in Primaries(ClusterOf(last.before, f)) :
        LET older == Older(p, q)
            younger == IF older = p THEN q ELSE p
        IN /\ \E d \in Contact : /\ d.id = younger.id
                                 /\ d.linkPrecedence = "secondary"
                                 /\ d.linkedId = older.id
           /\ \E o \in Contact : /\ o.id = older.id
                                 /\ Primaries(ClusterOf(Contact, o)) = {o}
           /\ last.contact.primaryContatctId = older.id
           /\ younger.id \in Range(last.contact.secondaryContactIds)

\* C3 (P2, idempotence): the same observation applied again right after it was
\* answered inserts no row and gets the same response.
P2_Idempotent ==
    [][(/\ Answered
        /\ last'.email = last.email
        /\ last'.phoneNumber = last.phoneNumber)
       => (/\ Ids(Contact') = Ids(Contact)
           /\ last'.status = last.status
           /\ last'.contact = last.contact)]_vars

\* an observation of one attribute only, held by secondaries only, in a well-formed store
ThroughSecondary ==
    /\ Answered
    /\ WellFormed(last.before)
    /\ ~(Truthy(last.email) /\ Truthy(last.phoneNumber))
    /\ Matching(last.before, last.email, last.phoneNumber) # {}
    /\ Primaries(Matching(last.before, last.email, last.phoneNumber)) = {}

\* C4 (resolution through a secondary): an observation of only a phone number (or
\* only an email) held by an existing secondary is answered with the primary that
\* secondary links to, and creates no primary.
ResolvesThroughSecondary ==
    ThroughSecondary =>
      /\ \A s \in Matching(last.before, last.email, last.phoneNumber) :
            last.contact.primaryContatctId = s.linkedId
      /\ Primaries(Inserted) = {}

\* C5 (P4, no orphan secondary): every live secondary's linkedId is the id of an
\* existing contact that is primary now.
P4_NoOrphanSecondary ==
    \A c \in Secondaries(Live(Contact)) :
       \E p \in Live(Contact) : p.id = c.linkedId /\ p.linkPrecedence = "primary"

\* C5's case: a secondary exists, and a request has since been resolved from a
\* secondary holding its attribute
P4_Witness ==
    /\ Secondaries(Contact) # {}
    /\ Answered
    /\ Secondaries(Matching(last.before, last.email, last.phoneNumber)) # {}

\* the cluster of the last observation in the store as it is now
ObservedCluster ==
    Connected(Contact, Matching(Contact, last.email, last.phoneNumber))

\* a response list holds exactly the non-empty values of the cluster's members,
\* each once
Covers(list, held) ==
    /\ \A v \in held : Truthy(v) => Cardinality({i \in 1..Len(list) : list[i] = v}) = 1
    /\ \A i \in 1..Len(list) : list[i] \in held

\* C7 (P5, attribute coverage): the response lists every distinct non-empty email
\* (phone number) held by a member of the observation's cluster exactly once, and
\* nothing no member holds.
P5_AttributeCoverage ==
    Answered =>
      /\ Covers(last.contact.emails, {c.email : c \in ObservedCluster})
      /\ Covers(last.contact.phoneNumbers, {c.phoneNumber : c \in ObservedCluster})

\* the last request was a valid observation that no live contact matched
NoMatch ==
    /\ last.status # 0
    /\ Truthy(last.email) \/ Truthy(last.phoneNumber)
    /\ Matching(last.before, last.email, last.phoneNumber) = {}

\* C8 (no-match case): an observation no live contact matches inserts exactly one
\* row, a primary without link carrying the observation's email and phone number,
\* changes no other row, and is answered with that row as primary and no secondary.
NoMatchCreatesPrimary ==
    NoMatch =>
      /\ Answered
      /\ \E row \in Contact :
            /\ row \notin last.before
            /\ Contact = last.before \cup {row}
            /\ row.linkPrecedence = "primary"
            /\ row.linkedId = NullId
            /\ row.deletedAt = NULL
            /\ row.email = Stored(last.email)
            /\ row.phoneNumber = Stored(last.phoneNumber)
            /\ row.id \notin Ids(last.before)
            /\ last.contact.primaryContatctId = row.id
            /\ last.contact.secondaryContactIds = <<>>

\* C8's case: a no-match observation on a store that already holds contacts
NoMatchWitness == NoMatch /\ last.before # {} /\ Answered

\* the last observation matched contacts of one cluster of a well-formed store
MatchedOneCluster ==
    /\ Answered
    /\ WellFormed(last.before)
    /\ Matching(last.before, last.email, last.phoneNumber) # {}
    /\ \A c, d \in Matching(last.before, last.email, last.phoneNumber) :
          d \in ClusterOf(last.before, c)

\* C9 (new-information case): an observation matching a cluster inserts one row, a
\* secondary linked to the cluster's primary, iff it supplies an email or a phone
\* number no member holds; otherwise it inserts nothing.
NewInformationAddsSecondary ==
    MatchedOneCluster =>
      LET K == Connected(last.before,
                         Matching(last.before, last.email, last.phoneNumber))
          new == \/ Truthy(last.email) /\ \A c \in K : c.email # last.email
                 \/ Truthy(last.phoneNumber)
                    /\ \A c \in K : c.phoneNumber # last.phoneNumber
      IN IF new
         THEN \E row \in Contact :
                 /\ Inserted = {row}
                 /\ row.linkPrecedence = "secondary"
                 /\ \E p \in Primaries(K) : row.linkedId = p.id
         ELSE Inserted = {}

\* C10 (I4, no duplicate rows): no two live contacts of one cluster carry the same
\* (email, phoneNumber) pair.
I4_NoDuplicateRows ==
    \A c \in Live(Contact) : \A d \in ClusterOf(Contact, c) :
       (c.email = d.email /\ c.phoneNumber = d.phoneNumber) => c = d

\* a field that is absent or empty
Empty(v) == v \in {UNDEF, NULL, ""}

\* the chain the last request resolved, when the SELECT returns rows in insertion order
ResolvedChains ==
    UNION {getContactChain(last.before, first) :
             first \in firstInserted(getRelatedContacts(last.before, last.email,
                                                        last.phoneNumber))}

\* C12 (IntegrityFault): an observation that matches a contact and whose resolved
\* cluster holds no primary, or more than one, fails with an error and inserts or
\* changes no row.
IntegrityFaultFails ==
    (/\ last.status \notin {0, 400}
     /\ Matching(last.before, last.email, last.phoneNumber) # {}
     /\ \E chain \in ResolvedChains : Cardinality(Primaries(Range(chain))) # 1)
    => (last.status = 500 /\ Contact = last.before)

\* C14 (InvalidObservation): a request with neither a non-empty email nor a
\* non-empty phone number is rejected with an error and leaves the table, the id
\* sequence and the clock as they were.
InvalidObservationRejected ==
    [][(Empty(last'.email) /\ Empty(last'.phoneNumber))
       => (/\ last'.status = 400
           /\ last'.contact = NoResponse
           /\ UNCHANGED <<Contact, id_seq, clock>>)]_vars

\* C14's case: an invalid request rejected on a table that holds contacts
InvalidObservationWitness ==
    /\ Empty(last.email) /\ Empty(last.phoneNumber)
    /\ last.status = 400
    /\ Contact # {}

\* a row changed by nothing, or by a demotion only
SameOrDemoted(c, d) ==
    \/ d = c
    \/ /\ c.linkPrecedence = "primary"
       /\ d.linkPrecedence = "secondary"
       /\ \A f \in {"id", "email", "phoneNumber", "createdAt", "deletedAt"} : d[f] = c[f]

\* C15 (lifecycle monotonicity): a contact present stays present, a secondary
\* stays secondary, and an existing row changes by a demotion only.
LifecycleMonotonic ==
    [][\A c \in Contact : \E d \in Contact' :
          /\ d.id = c.id
          /\ SameOrDemoted(c, d)
          /\ \A e \in Contact' : e.id = c.id => e = d]_vars

\* C15's case: a secondary that was there before the last request, which inserted
\* a row beside it
LifecycleWitness ==
    /\ Secondaries(last.before) # {}
    /\ Inserted # {}

\* position of the first occurrence of v in s
FirstAt(s, v) == CHOOSE i \in 1..Len(s) : s[i] = v /\ \A j \in 1..(i - 1) : s[j] # v

\* list renders the values: the non-empty ones, each once, in order of first occurrence
Renders(list, values) ==
    /\ \A i \in 1..Len(list) : Truthy(list[i])
    /\ \A i, j \in 1..Len(list) : list[i] = list[j] => i = j
    /\ Range(list) = {v \in Range(values) : Truthy(v)}
    /\ \A i, j \in 1..Len(list) :
          i < j => FirstAt(values, list[i]) < FirstAt(values, list[j])

\* C16 (view rendering): the response lists only non-empty strings, the primary's
\* value first, then the secondaries' in ascending createdAt order without
\* repeats (so no phone number at all gives the empty list), and the secondaries'
\* ids in that order.
ViewRendering ==
    Answered =>
      LET primary == RowOf(Contact, last.contact.primaryContatctId)
          ids == last.contact.secondaryContactIds
          members == <<primary>> \o [i \in 1..Len(ids) |-> RowOf(Contact, ids[i])]
      IN /\ primary.linkPrecedence = "primary"
         /\ \A i \in 1..Len(ids) : RowOf(Contact, ids[i]).linkPrecedence = "secondary"
         /\ \A i, j \in 1..Len(ids) :
               i < j => RowOf(Contact, ids[i]).createdAt < RowOf(Contact, ids[j]).createdAt
         /\ Renders(last.contact.emails,
                    [i \in 1..Len(members) |-> members[i].email])
         /\ Renders(last.contact.phoneNumbers,
                    [i \in 1..Len(members) |-> members[i].phoneNumber])

\* every secondary links to a live primary and no primary links to anything
StarShaped(table) ==
    \A c \in Live(table) :
       IF c.linkPrecedence = "primary" THEN c.linkedId = NullId
       ELSE \E p \in Primaries(Live(table)) : p.id = c.linkedId

\* the star a contact belongs to: its primary and that primary's live secondaries
StarOf(table, c) ==
    LET root == IF c.linkPrecedence = "primary" THEN c.id ELSE c.linkedId
    IN {d \in Live(table) : d.id = root \/ d.linkedId = root}

\* C17 (findCluster completeness): in a well-formed store the chain read from any
\* live contact is the full star of that contact's primary.
FindClusterFullStar ==
    StarShaped(Contact) =>
      \A c \in Live(Contact) : \A chain \in getContactChain(Contact, c) :
         Range(chain) = StarOf(Contact, c)

\* the table with the rows of gone soft-deleted
Deleting(table, gone) ==
    (table \ gone) \cup {[c EXCEPT !.deletedAt = "2026-01-01"] : c \in gone}

\* C18 (findByAttributes): for every table reached, with none or any one of its
\* rows soft-deleted, and every request, the lookup returns exactly the non-deleted
\* contacts whose email is the supplied email or whose phone number is the
\* supplied phone number; a field not supplied matches nothing.
FindByAttributes ==
    \A gone \in {{}} \cup {{c} : c \in Contact},
       email \in ReqEmails, phoneNumber \in ReqPhones :
       getRelatedContacts(Deleting(Contact, gone), email, phoneNumber) =
          {c \in Contact \ gone :
             \/ ~Empty(email) /\ c.email = email
             \/ ~Empty(phoneNumber) /\ c.phoneNumber = phoneNumber}

\* C18's case: a lookup by email and phone number that returns a contact matched by
\* the email only and one matched by the phone number only, and leaves one out
FindByAttributesWitness ==
    \E email \in EmailValues, phoneNumber \in PhoneValues :
       LET found == getRelatedContacts(Contact, email, phoneNumber)
       IN /\ \E c \in found : c.email = email /\ c.phoneNumber # phoneNumber
          /\ \E c \in found : c.email # email /\ c.phoneNumber = phoneNumber
          /\ found # Contact

\* C20 (frame of an identify): a request inserts at most one row, under an id
\* above every id of the table, and leaves the id, email, phoneNumber and createdAt
\* of every row that was there.
IdentifyFrame ==
    [][/\ Cardinality(Contact' \ Contact) <= 1
       /\ \A c \in Contact : \E d \in Contact' :
             \A f \in {"id", "email", "phoneNumber", "createdAt"} : d[f] = c[f]
       /\ \A d \in Contact' \ Contact : \A c \in Contact : d.id > c.id
       /\ Cardinality(Ids(Contact')) = Cardinality(Contact')]_vars

\* C20's case: the last request inserted a row into a table that held rows
IdentifyFrameWitness == Inserted # {} /\ last.before # {}

\* no request is in flight
Quiescent == \A p \in Procs : req[p].pc = "idle"

\* C11 (concurrent creation race): once two interleaved requests carrying the same
\* observation, novel to the table, have both completed, only one primary exists
\* for it: no two primaries carry the same email and the same phone number.
SerializedCreation ==
    Quiescent =>
      \A c, d \in Primaries(Live(Contact)) :
         (c.email = d.email /\ c.phoneNumber = d.phoneNumber) => c = d

\* C13 (atomic failure): a request that ends with an error, a store call of it
\* having failed, leaves the table exactly as it was when the request began.
AtomicFailure ==
    [][\A p \in Procs :
          (req[p].pc # "idle" /\ req'[p].pc = "idle" /\ last'.status = 500)
          => Contact' = req[p].before]_vars

\* C13's case: a request on a table that holds rows has ended with an error after
\* its INSERT failed, the id the INSERT drew being lost
AtomicFailureWitness ==
    /\ Quiescent
    /\ last.status = 500
    /\ last.before # {}
    /\ Contact = last.before
    /\ \A c \in Contact : c.id < id_seq

\* C19 (demotion unreachable): under every interleaving the chain a request holds
\* has at most one primary and no UPDATE is ever pending, and no step changes or
\* removes a row: every contact keeps the linkPrecedence and linkedId it was
\* inserted with.
DemotionUnreachable ==
    /\ [](\A p \in Procs : /\ Len(filterPrimary(req[p].fullChain)) <= 1
                            /\ req[p].pending = <<>>)
    /\ [][\A c \in Contact : c \in Contact']_vars

\* C19's case: a request holds the chain of one matched contact while another
\* primary of the table matches its observation too
DemotionUnreachableWitness ==
    \E p \in Procs :
       /\ req[p].pc = "write"
       /\ findPrimary(req[p].fullChain) # <<>>
       /\ \E c \in Primaries(Matching(Contact, req[p].email, req[p].phoneNumber)) :
             c \notin Range(req[p].fullChain)

====
